---- MODULE Spec2Model ----
(***************************************************************************)
(* Model of the pandoc HTTP server (src/server.py): the request handler    *)
(* RequestHandler.do_POST, one step of the model per gate of the handler.  *)
(***************************************************************************)
EXTENDS Integers, Sequences, FiniteSets, TLC

\* ------------------------------------------------------------------ bounds
MaxFiles == 2   \* most entries of "files"
MaxExtra == 1   \* most entries of "extra_files"

\* ------------------------------------------------------- request head values
None == "<None>"          \* Python None / an absent header
SomeToken == "s3cret"
Tokens == {None, SomeToken}
Methods == {"POST", "GET"}
Paths == {"/", "/convert"}
AuthorizationValues == {None, "Bearer " \o SomeToken, "Bearer wrong"}
ContentTypes == {None, "application/json", "text/plain"}
ContentLengths == {None, "ok"}

\* ------------------------------------------------------------- JSON values
\* A JSON value is [t |-> type, v |-> text]; v is the text of a string and
\* the literal of any other scalar.
JStr(s) == [t |-> "str", v |-> s]
JNull == [t |-> "null", v |-> "null"]
JNum == [t |-> "num", v |-> "5"]

\* file names (keys of "files" / "extra_files")
FileNames == {"a.md", "b.md", "d/a.md", "d/../a.md", "../../x", "/etc/x"}

\* content descriptors (values of "files" / "extra_files")
DataUris == {"data:,hi"}
HttpUrls == {"http://h/f"}
HttpsUrls == {"https://h/f"}
Base64Texts == {"IyBUaXRsZQ==", "Yg"}

\* the items a "files" / "extra_files" object is made of: every content under
\* one plain name, and one good content under every other name
Item(k, c) == [name |-> k, content |-> c]
FileItems ==
    {Item("a.md", c) : c \in {JNull, JNum, JStr("IyBUaXRsZQ=="), JStr("Yg"),
                              JStr("data:,hi"), JStr("http://h/f")}}
    \cup {Item(k, JStr("IyBUaXRsZQ==")) : k \in {"b.md", "d/a.md", "d/../a.md", "../../x"}}
    \cup {Item("/etc/x", JStr("data:,hi"))}

\* the items of "extra_files": overriding values, a name "files" may lack, a
\* name outside the sandbox
ExtraItems ==
    {Item("a.md", JStr("data:,hi")), Item("a.md", JNull),
     Item("b.md", JStr("data:,hi")), Item("../../x", JStr("IyBUaXRsZQ=="))}

\* the lists "args" is drawn from
ArgsLists == {<<>>, <<JNum>>, <<JStr("-s"), JStr("-t")>>, <<JStr("-s"), JNum>>}

\* bytes are small integers, a byte string is a sequence of them
Title == <<35, 84>>
Hi == <<104, 105>>

\* ------------------------------------------------------------ dict helpers
\* A dict is the sequence of its items in insertion order, keys unique.
Range(s) == {s[i] : i \in 1..Len(s)}
Keys(d) == [i \in 1..Len(d) |-> d[i].name]
KeySet(d) == {d[i].name : i \in 1..Len(d)}
Get(d, k) == (CHOOSE e \in Range(d) : e.name = k).content
UniqueKeys(d) == \A i, j \in 1..Len(d) : d[i].name = d[j].name => i = j
SeqsUpTo(S, n) == UNION {[1..m -> S] : m \in 0..n}
Dicts(items, n) == {d \in SeqsUpTo(items, n) : UniqueKeys(d)}

\* the merge written the other way round, { **extra_files, **files }
Merge_files_win(f, x) ==
    [i \in 1..Len(x) |->
        IF x[i].name \in KeySet(f) THEN Item(x[i].name, Get(f, x[i].name)) ELSE x[i]]
    \o SelectSeq(f, LAMBDA e : e.name \notin KeySet(x))

\* { **files, **extra_files }: the keys of files in their order, each with the
\* value of extra_files when extra_files has the key, then the keys only
\* extra_files has, in its order.
Merge(f, x) ==
    [i \in 1..Len(f) |->
        IF f[i].name \in KeySet(x) THEN Item(f[i].name, Get(x, f[i].name)) ELSE f[i]]
    \o SelectSeq(x, LAMBDA e : e.name \notin KeySet(f))

\* ----------------------------------------------------------- request bodies
Absent == [t |-> "absent", items |-> <<>>]
WrongType(ty) == [t |-> ty, items |-> <<>>]
FilesValues == {Absent, WrongType("list")} \cup {[t |-> "dict", items |-> d] : d \in Dicts(FileItems, MaxFiles)}
ExtraFilesValues == {Absent, WrongType("list")} \cup {[t |-> "dict", items |-> d] : d \in Dicts(ExtraItems, MaxExtra)}
ArgsValues == {Absent, WrongType("str")} \cup {[t |-> "list", items |-> a] : a \in ArgsLists}

\* the value loads() returns: an object with its three fields of interest, or
\* another JSON value (items: the elements of a list, the text of a string)
Object(f, x, a) == [t |-> "obj", items |-> <<>>, files |-> f, extra_files |-> x, args |-> a]
NonObject(ty, its) == [t |-> ty, items |-> its, files |-> Absent, extra_files |-> Absent, args |-> Absent]
NonObjects ==
    {NonObject("null", <<>>), NonObject("num", <<>>),
     NonObject("list", <<>>), NonObject("list", <<"files">>),
     NonObject("str", <<"abc">>), NonObject("str", <<"files">>)}

\* the bytes of a request body: JSON text of a value, text that is not JSON
\* ("malformed"), or bytes that are not UTF-8 ("bad_utf8")
Body(r, p) == [raw |-> r, value |-> p]
NoValue == NonObject("null", <<>>)

\* ------------------------------------------------------------------- paths
\* A path is the sequence of its components below the root directory.
\* PathParts: the components pathlib gives a file name ("/" first: absolute).
PathParts(name) ==
    CASE name = "a.md" -> <<"a.md">>
      [] name = "b.md" -> <<"b.md">>
      [] name = "d/a.md" -> <<"d", "a.md">>
      [] name = "d/../a.md" -> <<"d", "..", "a.md">>
      [] name = "../../x" -> <<"..", "..", "x">>
      [] name = "/etc/x" -> <<"/", "etc", "x">>

Front(s) == SubSeq(s, 1, Len(s) - 1)

\* base / name
JoinPath(base, parts) ==
    IF parts # <<>> /\ parts[1] = "/" THEN Tail(parts) ELSE base \o parts

RECURSIVE Normalize(_, _)
Normalize(parts, acc) ==
    IF parts = <<>> THEN acc
    ELSE IF Head(parts) = ".." THEN Normalize(Tail(parts), IF acc = <<>> THEN <<>> ELSE Front(acc))
    ELSE IF Head(parts) = "." THEN Normalize(Tail(parts), acc)
    ELSE Normalize(Tail(parts), Append(acc, Head(parts)))

\* Path.resolve() of a path none of whose components is a symbolic link
resolve(p) == Normalize(p, <<>>)

is_relative_to(p, base) == Len(p) >= Len(base) /\ SubSeq(p, 1, Len(base)) = base

tmp_path == <<"tmp", "tmpdir">>
files_path == tmp_path \o <<"files">>

\* ------------------------------------------------------ content descriptors
\* str.startswith on the descriptors of the model
startswith(s, prefix) ==
    CASE prefix = "data:" -> s \in DataUris
      [] prefix = "http:" -> s \in HttpUrls
      [] prefix = "https:" -> s \in HttpsUrls

\* b64decode: the bytes, or Raises (binascii.Error, incorrect padding)
Raises == <<-1>>
b64decode(s) == IF s = "IyBUaXRsZQ==" THEN Title ELSE Raises

\* urlopen(data URI).read(): the bytes, or Raises (no comma in the URI)
urlopen_data(s) == IF s = "data:,hi" THEN Hi ELSE Raises

\* str(n) of a small length and int() of it
str(n) == CASE n = 0 -> "0" [] n = 1 -> "1" [] n = 2 -> "2" [] n = 3 -> "3" [] OTHER -> "many"
int(s) == CASE s = "0" -> 0 [] s = "1" -> 1 [] s = "2" -> 2 [] s = "3" -> 3 [] OTHER -> -1

\* ------------------------------------------------------------ the tool
\* what communicate() can return: (returncode, stdout, stderr)
ToolResult(rc, out, err) == [returncode |-> rc, stdout |-> out, stderr |-> err]
ToolResults ==
    {ToolResult(0, <<1, 2, 3>>, <<9>>), ToolResult(0, <<>>, <<>>),
     ToolResult(1, <<1>>, <<8, 9>>), ToolResult(2, <<>>, <<>>)}
NoResult == ToolResult(0, <<>>, <<>>)

\* the page send_error() writes after its status line
ErrorPage == <<60, 33>>

\* ------------------------------------------------------------------- state
VARIABLES
    token,          \* the token the server was created with, or None
    method, path, headers,   \* the request line and headers received
    pc,             \* the handler's position
    raised,         \* an exception left (or is leaving) the handler
    content,        \* the body read from rfile, NoContent before the read
    payload, files, extra_files, args,   \* the handler's locals
    merged,         \* the items the materialization loop iterates over
    processed,      \* the loop's iterations so far, one record each
    dirs, fs,       \* the file system: directories, and files with their bytes
    created,        \* the temporary directories made so far
    status_lines, sent_headers, sent_body,   \* what was written to the client
    popen_calls,    \* the tool processes started: argument list and cwd
    result,         \* what communicate() returned
    proc,           \* the process: running, or how it ended
    main_pc,        \* the main thread's position in main()
    sig_pc,         \* the position of signal_handler, which runs on the main thread
    installed,      \* the signals signal_handler is registered for
    delivered,      \* the signals the process has received
    srv_pc,         \* server_thread's position in server_worker / serve_forever
    ready,          \* what the serving loop's select() returned
    shutdown_request, is_shut_down,   \* BaseServer's flag and event
    shutdown_called,   \* shutdown() has set the flag at least once
    listening,      \* the listening socket is open
    backlog,        \* connections made and not yet accepted, oldest first
    reqs            \* per connection: its handler thread's position and effects

vars ==
    <<token, method, path, headers, pc, raised, content, payload, files, extra_files,
      args, merged, processed, dirs, fs, created, status_lines, sent_headers, sent_body,
      popen_calls, result, proc, main_pc, sig_pc, installed, delivered, srv_pc, ready,
      shutdown_request, is_shut_down, shutdown_called, listening, backlog, reqs>>

request == <<token, method, path, headers>>
locals == <<content, payload, files, extra_files, args, merged, processed>>
disk == <<dirs, fs, created>>
tool == <<popen_calls, result>>
wire == <<status_lines, sent_headers, sent_body>>
threads == <<proc, main_pc, sig_pc, installed, delivered>>
loop == <<srv_pc, ready, shutdown_request, is_shut_down, shutdown_called, listening>>
server == <<threads, loop, backlog, reqs>>

NoContent == Body("unread", NoValue)

\* the signals main() registers signal_handler for
Signals == {"SIGINT", "SIGTERM"}

\* the connections clients make, each served by one handler thread
Requests == {"A", "B"}

\* a connection nobody has made yet
NoRequest == [st |-> "none", dir |-> None, wrote |-> {}, cwd |-> <<>>, status |-> 0, late |-> FALSE]

\* the server of one request: both handlers registered, the loop in select()
Serving ==
    /\ proc = "running"
    /\ main_pc = "join"
    /\ sig_pc = "idle"
    /\ installed = Signals
    /\ delivered = {}
    /\ srv_pc = "select"
    /\ ready = FALSE
    /\ shutdown_request = FALSE
    /\ is_shut_down = FALSE
    /\ shutdown_called = FALSE
    /\ listening = TRUE
    /\ backlog = <<>>
    /\ reqs = [r \in Requests |-> NoRequest]

Init ==
    /\ Serving
    /\ token \in Tokens
    /\ method \in Methods
    /\ path \in Paths
    /\ headers \in [Authorization : AuthorizationValues,
                    ContentType : ContentTypes,
                    ContentLength : ContentLengths]
    /\ pc = "dispatch"
    /\ raised = FALSE
    /\ content = NoContent
    /\ payload = NoValue
    /\ files = <<>> /\ extra_files = <<>> /\ args = <<>>
    /\ merged = <<>> /\ processed = <<>>
    /\ dirs = {<<>>, <<"tmp">>, <<"etc">>}
    /\ fs = <<>>
    /\ created = <<>>
    /\ status_lines = <<>> /\ sent_headers = <<>> /\ sent_body = <<>>
    /\ popen_calls = <<>>
    /\ result = NoResult

\* send_response(code); end_headers(); return
Reject(code, next) ==
    /\ status_lines' = Append(status_lines, code)
    /\ pc' = next
    /\ UNCHANGED <<sent_headers, sent_body, raised>>

\* an exception nothing in do_POST catches
Raise(next) ==
    /\ raised' = TRUE
    /\ pc' = next
    /\ UNCHANGED wire

Continue(next) ==
    /\ pc' = next
    /\ UNCHANGED <<raised, wire>>

\* ------------------------------------------------------------- the handler
\* BaseHTTPRequestHandler calls do_<METHOD>; RequestHandler defines do_POST
\* only, and a request with another method is answered by send_error(501).
Dispatch ==
    /\ pc = "dispatch"
    /\ IF method = "POST"
         THEN Continue("path")
         ELSE /\ status_lines' = Append(status_lines, 501)
              /\ sent_body' = Append(sent_body, ErrorPage)
              /\ pc' = "done"
              /\ UNCHANGED <<sent_headers, raised>>
    /\ UNCHANGED <<server, request, locals, disk, tool>>

\* the path check passing every path on
CheckPath_any ==
    /\ pc = "path"
    /\ Continue("auth")
    /\ UNCHANGED <<server, request, locals, disk, tool>>

CheckPath ==
    /\ pc = "path"
    /\ IF path # "/" THEN Reject(404, "done") ELSE Continue("auth")
    /\ UNCHANGED <<server, request, locals, disk, tool>>

\* the gate comparing the header with the bare token
AuthGate_bare(tok, authorization) ==
    IF tok # None
      THEN IF authorization = None THEN 401
           ELSE IF authorization # tok THEN 403
           ELSE 0
      ELSE 0

\* the gate asking for a header whether or not a token is configured
AuthGate_always(tok, authorization) ==
    IF authorization = None THEN 401
    ELSE IF authorization # "Bearer " \o tok THEN 403
    ELSE 0

\* the gate of the configured token
AuthGate(tok, authorization) ==
    IF tok # None
      THEN IF authorization = None THEN 401
           ELSE IF authorization # "Bearer " \o tok THEN 403
           ELSE 0
      ELSE 0

CheckAuth ==
    /\ pc = "auth"
    /\ LET code == AuthGate(token, headers.Authorization) IN
         IF code # 0 THEN Reject(code, "done") ELSE Continue("content_type")
    /\ UNCHANGED <<server, request, locals, disk, tool>>

\* the content type check without its return
CheckContentType_no_return ==
    /\ pc = "content_type"
    /\ IF headers.ContentType # "application/json"
         THEN Reject(400, "read")
         ELSE Continue("read")
    /\ UNCHANGED <<server, request, locals, disk, tool>>

CheckContentType ==
    /\ pc = "content_type"
    /\ IF headers.ContentType # "application/json"
         THEN Reject(400, "done")
         ELSE Continue("read")
    /\ UNCHANGED <<server, request, locals, disk, tool>>

\* int(self.headers["Content-Length"]) raises TypeError without the header;
\* otherwise the body is read from the connection
ReadBody ==
    /\ pc = "read"
    /\ IF headers.ContentLength = None
         THEN Raise("done") /\ UNCHANGED content
         ELSE /\ \/ \E r \in {"malformed", "bad_utf8"} : content' = Body(r, NoValue)
                 \/ \E p \in NonObjects : content' = Body("json", p)
                 \/ \E f \in FilesValues, x \in ExtraFilesValues, a \in ArgsValues :
                       content' = Body("json", Object(f, x, a))
              /\ Continue("parse")
    /\ UNCHANGED <<server, request, payload, files, extra_files, args, merged, processed, disk, tool>>

\* loads(content): JSONDecodeError -> 400, any other exception -> 500
ParseBody ==
    /\ pc = "parse"
    /\ CASE content.raw = "malformed" -> Reject(400, "done") /\ UNCHANGED payload
         [] content.raw = "bad_utf8" -> Reject(500, "done") /\ UNCHANGED payload
         [] OTHER -> payload' = content.value /\ Continue("validate")
    /\ UNCHANGED <<server, request, content, files, extra_files, args, merged, processed, disk, tool>>

\* "files" in payload: a key of an object, an element of a list, a substring
\* of a string; TypeError for a value that is no container
Supports_in(p) == p.t \in {"obj", "list", "str"}
Contains_files(p) == IF p.t = "obj" THEN p.files.t # "absent" ELSE "files" \in Range(p.items)

\* the checks of "files", "extra_files" and "args", in this order: "ok", the
\* status of the rejection, or "raise" (TypeError of `in`, or of pop on a list,
\* AttributeError of pop on a string)
Validation(p) ==
    IF ~Supports_in(p) THEN "raise"
    ELSE IF ~Contains_files(p) THEN "400"
    ELSE IF p.t # "obj" THEN "raise"
    ELSE IF p.files.t # "dict" THEN "400"
    ELSE IF p.extra_files.t \notin {"absent", "dict"} THEN "400"
    ELSE IF p.args.t = "absent" THEN "400"
    ELSE IF p.args.t # "list" THEN "400"
    ELSE "ok"

Validate ==
    /\ pc = "validate"
    /\ CASE Validation(payload) = "raise" ->
              Raise("done") /\ UNCHANGED <<files, extra_files, args>>
         [] Validation(payload) = "400" ->
              Reject(400, "done") /\ UNCHANGED <<files, extra_files, args>>
         [] OTHER ->
              /\ files' = payload.files.items
              /\ extra_files' = payload.extra_files.items
              /\ args' = payload.args.items
              /\ Continue("mkdtemp")
    /\ UNCHANGED <<server, request, content, payload, merged, processed, disk, tool>>

\* with TemporaryDirectory() as tmpdir: ... files_path.mkdir(parents=True),
\* and the dict the loop iterates over
CreateSandbox ==
    /\ pc = "mkdtemp"
    /\ dirs' = dirs \cup {tmp_path, files_path}
    /\ created' = Append(created, tmp_path)
    /\ merged' = Merge(files, extra_files)
    /\ Continue("loop")
    /\ UNCHANGED <<server, request, content, payload, files, extra_files, args, processed, fs, tool>>

\* ----------------------------------------------------------- materialization
\* file_path.open("wb") succeeds when the parent is a directory and the path
\* itself is not
can_open(p) == p # <<>> /\ Front(p) \in dirs /\ p \notin dirs

\* file_path of a file name
file_path_of(name) == resolve(JoinPath(files_path, PathParts(name)))

\* the check against the directory the sandboxes are made in
path_allowed_tmp(p) == is_relative_to(p, <<"tmp">>)

\* the check of the file path against the sandbox
path_allowed(p) == is_relative_to(p, files_path)

\* the bytes a string descriptor yields, or Raises
fetch(s) ==
    IF startswith(s, "data:") THEN urlopen_data(s)
    ELSE IF startswith(s, "http:") \/ startswith(s, "https:") THEN Raises
    ELSE b64decode(s)

Iteration(e, p, o, d) ==
    [name |-> e.name, content |-> e.content, file_path |-> p, outcome |-> o, data |-> d]

\* one iteration of the loop over the merged dict
Materialize ==
    /\ pc = "loop"
    /\ Len(processed) < Len(merged)
    /\ LET e == merged[Len(processed) + 1]
           file_path == file_path_of(e.name)
       IN
         IF ~path_allowed(file_path) THEN
            /\ Reject(400, "exit_with")
            /\ processed' = Append(processed, Iteration(e, file_path, "traversal", <<>>))
            /\ UNCHANGED fs
         ELSE IF e.content = JNull THEN
            /\ Reject(400, "exit_with")
            /\ processed' = Append(processed, Iteration(e, file_path, "null", <<>>))
            /\ UNCHANGED fs
         ELSE IF e.content.t # "str" THEN
            \* AttributeError: no startswith
            /\ Raise("exit_with")
            /\ processed' = Append(processed, Iteration(e, file_path, "raised", <<>>))
            /\ UNCHANGED fs
         ELSE IF ~can_open(file_path) THEN
            /\ Raise("exit_with")
            /\ processed' = Append(processed, Iteration(e, file_path, "raised", <<>>))
            /\ UNCHANGED fs
         ELSE IF fetch(e.content.v) = Raises THEN
            \* the file was opened, and so created or truncated, before
            /\ Raise("exit_with")
            /\ processed' = Append(processed, Iteration(e, file_path, "raised", <<>>))
            /\ fs' = (file_path :> <<>>) @@ fs
         ELSE
            /\ Continue("loop")
            /\ processed' = Append(processed, Iteration(e, file_path, "written", fetch(e.content.v)))
            /\ fs' = (file_path :> fetch(e.content.v)) @@ fs
    /\ UNCHANGED <<server, request, content, payload, files, extra_files, args, merged, dirs, created, tool>>

\* ------------------------------------------------------------- conversion
\* the argument list with the file names before the arguments
argv_files_first(a, f) == <<"pandoc">> \o Keys(f) \o [i \in 1..Len(a) |-> a[i].v] \o <<"-o", "-">>

\* the argument list given to Popen
argv(a, f) == <<"pandoc">> \o [i \in 1..Len(a) |-> a[i].v] \o Keys(f) \o <<"-o", "-">>

\* the tool started inside the loop, whatever is left to materialize
RunPandoc_early ==
    /\ pc = "loop"
    /\ IF \E i \in 1..Len(args) : args[i].t # "str"
         THEN Raise("exit_with") /\ UNCHANGED tool
         ELSE /\ popen_calls' = Append(popen_calls, [argv |-> argv(args, files), cwd |-> files_path])
              /\ \E r \in ToolResults : result' = r
              /\ Continue("respond")
    /\ UNCHANGED <<server, request, locals, disk>>

\* Popen(...) and communicate(); Popen raises TypeError for an argument that
\* is not a string, before any process is started
RunPandoc ==
    /\ pc = "loop"
    /\ Len(processed) = Len(merged)
    /\ IF \E i \in 1..Len(args) : args[i].t # "str"
         THEN Raise("exit_with") /\ UNCHANGED tool
         ELSE /\ popen_calls' = Append(popen_calls, [argv |-> argv(args, files), cwd |-> files_path])
              /\ \E r \in ToolResults : result' = r
              /\ Continue("respond")
    /\ UNCHANGED <<server, request, locals, disk>>

\* the response with the tool's output as the body of a failure too
Response_stdout(r) ==
    IF r.returncode # 0
      THEN [status |-> 500, headers |-> <<>>, body |-> r.stdout]
      ELSE [status |-> 200,
            headers |-> << <<"Content-Type", "application/octet-stream">>,
                           <<"Content-Length", str(Len(r.stdout))>> >>,
            body |-> r.stdout]

\* the response to the tool's result: status, headers, body
Response(r) ==
    IF r.returncode # 0
      THEN [status |-> 500, headers |-> <<>>, body |-> r.stderr]
      ELSE [status |-> 200,
            headers |-> << <<"Content-Type", "application/octet-stream">>,
                           <<"Content-Length", str(Len(r.stdout))>> >>,
            body |-> r.stdout]

SendResult ==
    /\ pc = "respond"
    /\ status_lines' = Append(status_lines, Response(result).status)
    /\ sent_headers' = sent_headers \o Response(result).headers
    /\ sent_body' = Append(sent_body, Response(result).body)
    /\ pc' = "exit_with"
    /\ UNCHANGED <<server, request, locals, disk, tool, raised>>

\* a cleanup that runs on return only, not when an exception leaves the block
ExitWith_on_return ==
    /\ pc = "exit_with"
    /\ dirs' = IF raised THEN dirs ELSE {p \in dirs : ~is_relative_to(p, tmp_path)}
    /\ fs' = IF raised THEN fs ELSE [p \in {q \in DOMAIN fs : ~is_relative_to(q, tmp_path)} |-> fs[p]]
    /\ pc' = "done"
    /\ UNCHANGED <<server, request, locals, created, tool, raised, wire>>

\* TemporaryDirectory.__exit__: the directory and all below it are removed,
\* on return and on an exception alike
Removed(d, base) == {p \in d : ~is_relative_to(p, base)}

ExitWith ==
    /\ pc = "exit_with"
    /\ dirs' = Removed(dirs, tmp_path)
    /\ fs' = [p \in Removed(DOMAIN fs, tmp_path) |-> fs[p]]
    /\ pc' = "done"
    /\ UNCHANGED <<server, request, locals, created, tool, raised, wire>>

Next ==
    \/ Dispatch
    \/ CheckPath
    \/ CheckAuth
    \/ CheckContentType
    \/ ReadBody
    \/ ParseBody
    \/ Validate
    \/ CreateSandbox
    \/ Materialize
    \/ RunPandoc
    \/ SendResult
    \/ ExitWith

Spec == Init /\ [][Next]_vars

\* ================================================================ the server
\* main(), the thread that runs serve_forever(), signal_handler, and the handler
\* threads ThreadingHTTPServer starts, one per accepted connection.

\* the names mkdtemp can give a temporary directory
SandboxNames == {"t1", "t2"}

sandbox(n) == <<"tmp", n>>
files_dir(n) == sandbox(n) \o <<"files">>

\* the file names these requests ask for, as path components
WantedNames == {<<"a.md">>} \cup {<<"..", "..", n, "files", "a.md">> : n \in SandboxNames}

\* the statuses a request that fails a gate before the sandbox is answered with
RejectCodes == {400, 401}

one_request == <<request, pc, raised, locals, tool, wire>>

\* after http_server = create_server(...): the socket is bound and listening
InitServer ==
    /\ token = None
    /\ method = "POST"
    /\ path = "/"
    /\ headers = [Authorization |-> None, ContentType |-> "application/json", ContentLength |-> "ok"]
    /\ pc = "dispatch"
    /\ raised = FALSE
    /\ content = NoContent
    /\ payload = NoValue
    /\ files = <<>> /\ extra_files = <<>> /\ args = <<>>
    /\ merged = <<>> /\ processed = <<>>
    /\ dirs = {<<>>, <<"tmp">>, <<"etc">>}
    /\ fs = <<>>
    /\ created = <<>>
    /\ status_lines = <<>> /\ sent_headers = <<>> /\ sent_body = <<>>
    /\ popen_calls = <<>>
    /\ result = NoResult
    /\ proc = "running"
    /\ main_pc = "start"
    /\ sig_pc = "idle"
    /\ installed = {}
    /\ delivered = {}
    /\ srv_pc = "unstarted"
    /\ ready = FALSE
    /\ shutdown_request = FALSE
    /\ is_shut_down = FALSE
    /\ shutdown_called = FALSE
    /\ listening = TRUE
    /\ backlog = <<>>
    /\ reqs = [r \in Requests |-> NoRequest]

\* a handler thread that holds a temporary directory
InWith == {"loop", "popen", "respond", "exit_with"}

\* a handler thread that has started and not finished
InFlight == {"gates", "mkdtemp"} \cup InWith

\* the handler threads are daemon threads: they end with the process
Abandoned(rs) ==
    [r \in Requests |-> IF rs[r].st \in InFlight THEN [rs[r] EXCEPT !.st = "killed"] ELSE rs[r]]

\* the temporary directories of the handler threads still inside their with block
Held(rs) == {sandbox(rs[r].dir) : r \in {q \in Requests : rs[q].st \in InWith}}

\* what is left of d once every held temporary directory is removed
Finalized(d, rs) == {p \in d : \A h \in Held(rs) : ~is_relative_to(p, h)}

\* ---------------------------------------------------------- the main thread
\* server_thread = Thread(target=server_worker); server_thread.start()
MainStart ==
    /\ proc = "running" /\ sig_pc = "idle"
    /\ main_pc = "start"
    /\ main_pc' = "signal_int"
    /\ srv_pc' = "enter"
    /\ UNCHANGED <<proc, sig_pc, installed, delivered, ready, shutdown_request, is_shut_down,
                   shutdown_called, listening, backlog, reqs, disk, one_request>>

\* signal(SIGINT, signal_handler)
InstallInt ==
    /\ proc = "running" /\ sig_pc = "idle"
    /\ main_pc = "signal_int"
    /\ installed' = installed \cup {"SIGINT"}
    /\ main_pc' = "signal_term"
    /\ UNCHANGED <<proc, sig_pc, delivered, loop, backlog, reqs, disk, one_request>>

\* signal(SIGTERM, signal_handler); then main waits in server_thread.join()
InstallTerm ==
    /\ proc = "running" /\ sig_pc = "idle"
    /\ main_pc = "signal_term"
    /\ installed' = installed \cup {"SIGTERM"}
    /\ main_pc' = "join"
    /\ UNCHANGED <<proc, sig_pc, delivered, loop, backlog, reqs, disk, one_request>>

\* The process receives s. With signal_handler registered for s, the main
\* thread runs it (a second signal starts it again on top of the first). Without,
\* the default applies: SIGTERM ends the process at once; SIGINT raises
\* KeyboardInterrupt in main(), which ends the main thread, and the interpreter
\* then waits for server_thread, which is not a daemon thread.
Signal(s) ==
    /\ proc = "running"
    /\ s \notin delivered
    /\ delivered' = delivered \cup {s}
    /\ CASE s \in installed ->
              /\ sig_pc' = "shutdown"
              /\ UNCHANGED <<proc, main_pc, reqs, dirs, fs>>
         [] s \notin installed /\ s = "SIGTERM" ->
              /\ proc' = "killed"
              /\ reqs' = Abandoned(reqs)
              /\ UNCHANGED <<main_pc, sig_pc, dirs, fs>>
         [] s \notin installed /\ s = "SIGINT" /\ main_pc = "start" ->
              /\ proc' = "interrupted"
              /\ UNCHANGED <<main_pc, sig_pc, reqs, dirs, fs>>
         [] OTHER ->
              /\ main_pc' = "finalizing"
              /\ UNCHANGED <<proc, sig_pc, reqs, dirs, fs>>
    /\ UNCHANGED <<installed, loop, backlog, created, one_request>>

\* signal_handler: http_server.shutdown() sets the flag ...
HandlerShutdown ==
    /\ proc = "running"
    /\ sig_pc = "shutdown"
    /\ shutdown_request' = TRUE
    /\ shutdown_called' = TRUE
    /\ sig_pc' = "wait"
    /\ UNCHANGED <<proc, main_pc, installed, delivered, srv_pc, ready, is_shut_down, listening,
                   backlog, reqs, disk, one_request>>

\* ... and waits until serve_forever() has left its loop
HandlerWait ==
    /\ proc = "running"
    /\ sig_pc = "wait"
    /\ is_shut_down
    /\ sig_pc' = "join"
    /\ UNCHANGED <<proc, main_pc, installed, delivered, loop, backlog, reqs, disk, one_request>>

\* signal_handler: server_thread.join()
HandlerJoin ==
    /\ proc = "running"
    /\ sig_pc = "join"
    /\ srv_pc = "ended"
    /\ sig_pc' = "exit"
    /\ UNCHANGED <<proc, main_pc, installed, delivered, loop, backlog, reqs, disk, one_request>>

\* signal_handler: exit(0). The interpreter does not wait for daemon threads;
\* a TemporaryDirectory still held is removed by its finalizer.
HandlerExit ==
    /\ proc = "running"
    /\ sig_pc = "exit"
    /\ proc' = "exited"
    /\ reqs' = Abandoned(reqs)
    /\ dirs' = Finalized(dirs, reqs)
    /\ fs' = [p \in Finalized(DOMAIN fs, reqs) |-> fs[p]]
    /\ UNCHANGED <<main_pc, sig_pc, installed, delivered, loop, backlog, created, one_request>>

MainThread ==
    \/ MainStart \/ InstallInt \/ InstallTerm
    \/ HandlerShutdown \/ HandlerWait \/ HandlerJoin \/ HandlerExit

\* -------------------------------------------------------- the server thread
\* serve_forever(): self.__is_shut_down.clear()
SrvEnter ==
    /\ proc = "running"
    /\ srv_pc = "enter"
    /\ is_shut_down' = FALSE
    /\ srv_pc' = "while"
    /\ UNCHANGED <<threads, ready, shutdown_request, shutdown_called, listening, backlog, reqs,
                   disk, one_request>>

\* while not self.__shutdown_request:
SrvWhile ==
    /\ proc = "running"
    /\ srv_pc = "while"
    /\ srv_pc' = IF shutdown_request THEN "finally" ELSE "select"
    /\ UNCHANGED <<threads, ready, shutdown_request, is_shut_down, shutdown_called, listening,
                   backlog, reqs, disk, one_request>>

\* ready = selector.select(poll_interval): a pending connection, or the timeout
SrvSelect ==
    /\ proc = "running"
    /\ srv_pc = "select"
    /\ ready' = (backlog # <<>>)
    /\ srv_pc' = "recheck"
    /\ UNCHANGED <<threads, shutdown_request, is_shut_down, shutdown_called, listening,
                   backlog, reqs, disk, one_request>>

\* a loop that does not look at the flag again after select()
SrvRecheck_unchecked ==
    /\ proc = "running"
    /\ srv_pc = "recheck"
    /\ srv_pc' = IF ready THEN "accept" ELSE "while"
    /\ UNCHANGED <<threads, ready, shutdown_request, is_shut_down, shutdown_called, listening,
                   backlog, reqs, disk, one_request>>

\* if self.__shutdown_request: break;  if ready: ...
SrvRecheck ==
    /\ proc = "running"
    /\ srv_pc = "recheck"
    /\ srv_pc' = IF shutdown_request THEN "finally" ELSE IF ready THEN "accept" ELSE "while"
    /\ UNCHANGED <<threads, ready, shutdown_request, is_shut_down, shutdown_called, listening,
                   backlog, reqs, disk, one_request>>

\* a server that handles the request in the serving thread: the loop goes on
\* when the handler has returned
SrvAccept_inline ==
    /\ proc = "running"
    /\ srv_pc = "accept"
    /\ \A r \in Requests : reqs[r].st \notin InFlight
    /\ reqs' = [reqs EXCEPT ![Head(backlog)].st = "gates",
                            ![Head(backlog)].late = shutdown_called]
    /\ backlog' = Tail(backlog)
    /\ srv_pc' = "while"
    /\ UNCHANGED <<threads, ready, shutdown_request, is_shut_down, shutdown_called, listening,
                   disk, one_request>>

\* self._handle_request_noblock(): accept the connection and start its handler
\* thread (ThreadingMixIn.process_request), then back to the loop's condition
SrvAccept ==
    /\ proc = "running"
    /\ srv_pc = "accept"
    /\ reqs' = [reqs EXCEPT ![Head(backlog)].st = "gates",
                            ![Head(backlog)].late = shutdown_called]
    /\ backlog' = Tail(backlog)
    /\ srv_pc' = "while"
    /\ UNCHANGED <<threads, ready, shutdown_request, is_shut_down, shutdown_called, listening,
                   disk, one_request>>

\* finally: self.__shutdown_request = False; self.__is_shut_down.set()
SrvFinally ==
    /\ proc = "running"
    /\ srv_pc = "finally"
    /\ shutdown_request' = FALSE
    /\ is_shut_down' = TRUE
    /\ srv_pc' = "close"
    /\ UNCHANGED <<threads, ready, shutdown_called, listening, backlog, reqs, disk, one_request>>

\* leaving "with http_server": server_close(), and server_worker returns
SrvClose ==
    /\ proc = "running"
    /\ srv_pc = "close"
    /\ listening' = FALSE
    /\ srv_pc' = "ended"
    /\ UNCHANGED <<threads, ready, shutdown_request, is_shut_down, shutdown_called, backlog,
                   reqs, disk, one_request>>

ServingLoop == SrvEnter \/ SrvWhile \/ SrvSelect \/ SrvRecheck \/ SrvAccept

ServerThread == ServingLoop \/ SrvFinally \/ SrvClose

\* ---------------------------------------------------------------- clients
\* a client connects: the connection waits in the listening socket's queue
Connect(r) ==
    /\ proc = "running"
    /\ listening
    /\ reqs[r].st = "none"
    /\ reqs' = [reqs EXCEPT ![r].st = "queued"]
    /\ backlog' = Append(backlog, r)
    /\ UNCHANGED <<threads, loop, disk, one_request>>

\* ------------------------------------------------------ the handler threads
\* do_POST up to the sandbox: a gate answers with its status and returns, an
\* exception ends the handler with no response, or the request is valid
HGates(r) ==
    /\ proc = "running"
    /\ reqs[r].st = "gates"
    /\ \/ \E code \in RejectCodes : reqs' = [reqs EXCEPT ![r].st = "done", ![r].status = code]
       \/ reqs' = [reqs EXCEPT ![r].st = "done"]
       \/ reqs' = [reqs EXCEPT ![r].st = "mkdtemp"]
    /\ UNCHANGED <<threads, loop, backlog, disk, one_request>>

\* a mkdtemp that does not look whether the name is taken
FreshNames_any(d) == SandboxNames

\* mkdtemp gives a name under which nothing exists
FreshNames(d) == {n \in SandboxNames : sandbox(n) \notin d}

\* with TemporaryDirectory() as tmpdir: ... files_path.mkdir(parents=True)
HCreateSandbox(r) ==
    /\ proc = "running"
    /\ reqs[r].st = "mkdtemp"
    /\ \E n \in FreshNames(dirs) :
         /\ dirs' = dirs \cup {sandbox(n), files_dir(n)}
         /\ created' = Append(created, sandbox(n))
         /\ reqs' = [reqs EXCEPT ![r].st = "loop", ![r].dir = n]
    /\ UNCHANGED <<threads, loop, backlog, fs, one_request>>

\* the loop over one entry: the path check, then the write, or an exception
\* after file_path.open("wb") has made the file
HMaterialize(r) ==
    /\ proc = "running"
    /\ reqs[r].st = "loop"
    /\ \E name \in WantedNames, fetched \in BOOLEAN :
         LET file_path == resolve(JoinPath(files_dir(reqs[r].dir), name)) IN
         IF ~is_relative_to(file_path, files_dir(reqs[r].dir))
           THEN /\ reqs' = [reqs EXCEPT ![r].st = "exit_with", ![r].status = 400]
                /\ UNCHANGED fs
           ELSE /\ fs' = [p \in DOMAIN fs \cup {file_path} |->
                            IF p = file_path THEN (IF fetched THEN Hi ELSE <<>>) ELSE fs[p]]
                /\ reqs' = [reqs EXCEPT ![r].st = IF fetched THEN "popen" ELSE "exit_with",
                                        ![r].wrote = @ \cup {file_path}]
    /\ UNCHANGED <<threads, loop, backlog, dirs, created, one_request>>

\* Popen(["pandoc", ...], cwd=files_path) and communicate()
HRunPandoc(r) ==
    /\ proc = "running"
    /\ reqs[r].st = "popen"
    /\ reqs' = [reqs EXCEPT ![r].st = "respond", ![r].cwd = files_dir(reqs[r].dir)]
    /\ UNCHANGED <<threads, loop, backlog, disk, one_request>>

\* send_response(500 or 200), the headers and the body
HSendResult(r) ==
    /\ proc = "running"
    /\ reqs[r].st = "respond"
    /\ \E code \in {200, 500} : reqs' = [reqs EXCEPT ![r].st = "exit_with", ![r].status = code]
    /\ UNCHANGED <<threads, loop, backlog, disk, one_request>>

\* TemporaryDirectory.__exit__ of this request's directory
HExitWith(r) ==
    /\ proc = "running"
    /\ reqs[r].st = "exit_with"
    /\ dirs' = Removed(dirs, sandbox(reqs[r].dir))
    /\ fs' = [p \in Removed(DOMAIN fs, sandbox(reqs[r].dir)) |-> fs[p]]
    /\ reqs' = [reqs EXCEPT ![r].st = "done"]
    /\ UNCHANGED <<threads, loop, backlog, created, one_request>>

HandlerThread(r) ==
    \/ HGates(r) \/ HCreateSandbox(r) \/ HMaterialize(r)
    \/ HRunPandoc(r) \/ HSendResult(r) \/ HExitWith(r)

\* --------------------------------------------------------- specifications
NextServer ==
    \/ MainThread
    \/ \E s \in Signals : Signal(s)
    \/ ServerThread
    \/ \E r \in Requests : Connect(r)
    \/ \E r \in Requests : HandlerThread(r)

\* The scheduler lets every thread that can run, run: the main thread and the
\* server thread always can (select() returns after poll_interval at the
\* latest). A handler thread may wait forever on its client, on a remote host
\* or on the tool, so none is required to move.
SpecServer ==
    InitServer /\ [][NextServer]_vars /\ WF_vars(MainThread) /\ WF_vars(ServerThread)

\* the server while no signal arrives
NextServing ==
    \/ MainStart \/ InstallInt \/ InstallTerm
    \/ ServingLoop
    \/ \E r \in Requests : Connect(r)
    \/ \E r \in Requests : HandlerThread(r)

\* as SpecServer, and request B is one whose client, remote hosts and tool
\* answer; request A may wait forever
SpecServing ==
    InitServer /\ [][NextServing]_vars /\ WF_vars(MainStart \/ InstallInt \/ InstallTerm)
      /\ WF_vars(ServingLoop) /\ WF_vars(HandlerThread("B"))

\* ================================================================== claims
Under(t) == {p \in dirs \cup DOMAIN fs : is_relative_to(p, t)}
Statuses == Range(status_lines)
Expected == "Bearer " \o token
OnlyRoute == method = "POST" /\ path = "/"

\* C1: once the handling of a request has finished, no temporary directory it
\* made exists any more, nor anything below it, whether the handler returned
\* (200, 500, rejection of a path or of a null content) or an exception left
\* it; a sandbox exists only between its creation and the end of the with block.
C1_SandboxRemoved ==
    /\ pc = "done" => \A i \in 1..Len(created) : Under(created[i]) = {}
    /\ Under(tmp_path) # {} => pc \in {"loop", "respond", "exit_with"}

\* a request that wrote a file into its sandbox, then raised, and has finished
C1_Witness ==
    /\ pc = "done" /\ raised /\ created # <<>>
    /\ \E i \in 1..Len(processed) : processed[i].outcome = "written"

\* C2 as stated, of the requests do_POST handles: with a token configured,
\* every request without an Authorization header is answered 401, every
\* request with another value than "Bearer <token>" 403, and a request with
\* that value never 401 or 403.
C2_Original ==
    (token # None /\ method = "POST" /\ pc = "done") =>
        /\ headers.Authorization = None => status_lines = <<401>>
        /\ headers.Authorization \notin {None, Expected} => status_lines = <<403>>
        /\ headers.Authorization = Expected => Statuses \cap {401, 403} = {}

\* C2 amended: with a token configured, every POST request to "/" without an
\* Authorization header is answered 401 and nothing else, one with another
\* value than "Bearer <token>" 403 and nothing else, and one with exactly that
\* value is never answered 401 or 403.
C2_AuthGate ==
    (token # None /\ OnlyRoute /\ pc \notin {"dispatch", "path", "auth"}) =>
        /\ headers.Authorization = None => status_lines = <<401>> /\ pc = "done"
        /\ headers.Authorization \notin {None, Expected} => status_lines = <<403>> /\ pc = "done"
        /\ headers.Authorization = Expected => Statuses \cap {401, 403} = {}

\* a request with the right token that got past the gate and was answered
C2_Witness ==
    /\ token # None /\ OnlyRoute /\ headers.Authorization = Expected
    /\ pc = "done" /\ status_lines = <<200>>

HasDotDot(name) == ".." \in Range(PathParts(name))
Outside(name) == ~is_relative_to(resolve(JoinPath(files_path, PathParts(name))), files_path)

\* C3 as stated: no file is ever written outside the sandbox, and a request
\* whose merged mapping has a name with a ".." component, or one resolving
\* outside the files directory, never writes that name's file, never starts
\* the tool, and is answered 400.
C3_Original ==
    /\ \A p \in DOMAIN fs : is_relative_to(p, tmp_path)
    /\ \A i \in 1..Len(processed) :
          (HasDotDot(processed[i].name) \/ Outside(processed[i].name))
              => processed[i].outcome = "traversal"
    /\ \A i \in 1..Len(merged) :
          (HasDotDot(merged[i].name) \/ Outside(merged[i].name))
              => popen_calls = <<>> /\ (pc = "done" => status_lines = <<400>>)

\* C3 amended: no file is ever written outside the sandbox; a request whose
\* merged mapping has a name resolving outside the files directory never
\* starts the tool and is sent no status but 400; and when the loop comes to
\* such a name it writes nothing for it and the request is answered 400. (A
\* name with ".." that resolves inside the files directory is accepted.)
C3_Traversal ==
    /\ \A p \in DOMAIN fs : is_relative_to(p, tmp_path)
    /\ \A i \in 1..Len(processed) :
          Outside(processed[i].name)
              => processed[i].outcome = "traversal" /\ status_lines = <<400>>
    /\ \A i \in 1..Len(merged) :
          Outside(merged[i].name) => popen_calls = <<>> /\ status_lines \in {<<>>, <<400>>}

\* a request rejected for its second name, after the first was written
C3_Witness ==
    /\ pc = "done" /\ Len(processed) = 2
    /\ processed[1].outcome = "written" /\ processed[2].outcome = "traversal"

\* the body was parsed as JSON and its value went through the validation
Validated == content.raw = "json" /\ pc \notin {"read", "parse", "validate"}
Provided(field) == field.t # "absent"

\* a value without "files" or "args", or with a "files", "extra_files" or
\* "args" of the wrong type, or that is no object at all
Misshapen(p) ==
    \/ p.t # "obj"
    \/ p.files.t # "dict"
    \/ Provided(p.extra_files) /\ p.extra_files.t # "dict"
    \/ p.args.t # "list"

\* C4: a request whose JSON value lacks "files" or "args", or has a "files",
\* "extra_files" or "args" of the wrong type, or is not an object, is answered
\* 400 and nothing else, no tool is started for it and it leaves no sandbox.
C4_Claim ==
    (Validated /\ Misshapen(payload)) =>
        /\ status_lines = <<400>>
        /\ pc = "done"
        /\ popen_calls = <<>>
        /\ created = <<>> /\ Under(tmp_path) = {}

\* C5: a request do_POST handles is sent at most one status line, and exactly
\* one once its handling has finished; a body is sent only after it, and only
\* the whole stdout after 200 or the whole stderr after 500.
C5_Claim ==
    method = "POST" =>
        /\ Len(status_lines) <= 1
        /\ pc = "done" => Len(status_lines) = 1
        /\ sent_body # <<>> =>
              \/ status_lines = <<200>> /\ sent_body = <<result.stdout>>
              \/ status_lines = <<500>> /\ sent_body = <<result.stderr>>

\* the errors of the client's input in a request that reached the validation
\* of an object: a field missing or of the wrong type, an element of "args"
\* that is no string, a content that is neither a string nor null, a null
\* content, a name resolving outside the files directory
FieldError(p) ==
    \/ Misshapen(p)
    \/ \E i \in 1..Len(p.args.items) : p.args.items[i].t # "str"
    \/ \E d \in {p.files.items, p.extra_files.items} :
          \E i \in 1..Len(d) : d[i].content.t # "str" \/ Outside(d[i].name)

ClientInputError ==
    \/ path # "/"
    \/ headers.ContentType # "application/json"
    \/ content.raw = "malformed"
    \/ content.raw = "json" /\ content.value.t = "obj" /\ FieldError(content.value)

\* C6: a request with an error in the client's input, once handled, has been
\* sent exactly one status line, and that a 4xx.
C6_Claim ==
    (method = "POST" /\ pc = "done" /\ ClientInputError) =>
        /\ Len(status_lines) = 1
        /\ \A i \in 1..Len(status_lines) : status_lines[i] \in 400..499

HeaderValues(name) == {sent_headers[i][2] : i \in {j \in 1..Len(sent_headers) : sent_headers[j][1] = name}}

\* C7: after the tool has run, nothing is sent before the handler responds,
\* and the response is the single one its exit status selects: status 0 gives
\* 200, a Content-Length that is the length of the captured stdout, and the
\* stdout as the only body; any other status gives 500 and the stderr as the
\* only body.
C7_ToolOutcome ==
    popen_calls # <<>> =>
        IF pc = "respond" THEN status_lines = <<>> /\ sent_body = <<>>
        ELSE IF result.returncode = 0 THEN
            /\ status_lines = <<200>>
            /\ sent_body = <<result.stdout>>
            /\ {int(v) : v \in HeaderValues("Content-Length")} = {Len(result.stdout)}
        ELSE
            /\ status_lines = <<500>>
            /\ sent_body = <<result.stderr>>

\* a failed run whose stdout and stderr differ, answered
C7_Witness ==
    /\ pc = "done" /\ popen_calls # <<>>
    /\ result.returncode # 0 /\ result.stdout # <<>> /\ result.stdout # result.stderr

\* the part of an argument list between the request's args and "-o"
Positional(v) == SubSeq(v, 2 + Len(args), Len(v) - 2)
Occurrences(v, x) == Cardinality({i \in 1..Len(v) : v[i] = x})

\* C8: the tool is started at most once, in the files directory, and its
\* argument list is the program, the request's args in order, the keys of
\* "files" in order, "-o", "-"; a name only "extra_files" has is no positional
\* input, and a name both have is one exactly once.
C8_ArgumentList ==
    /\ Len(popen_calls) <= 1
    /\ \A c \in 1..Len(popen_calls) :
          LET v == popen_calls[c].argv
              n == Len(args)
              m == Len(files)
          IN /\ Len(v) = n + m + 3
             /\ v[1] = "pandoc"
             /\ \A i \in 1..n : v[1 + i] = args[i].v
             /\ \A j \in 1..m : v[1 + n + j] = files[j].name
             /\ v[n + m + 2] = "-o" /\ v[n + m + 3] = "-"
             /\ \A k \in KeySet(extra_files) \ KeySet(files) : Occurrences(Positional(v), k) = 0
             /\ \A k \in KeySet(extra_files) \cap KeySet(files) : Occurrences(Positional(v), k) = 1

\* the tool started with two args, two files and a name only extra_files has
C8_Witness ==
    /\ popen_calls # <<>> /\ Len(args) = 2 /\ Len(files) = 2
    /\ KeySet(extra_files) \ KeySet(files) # {}

\* C9: the loop handles no key twice and only keys of "files" or
\* "extra_files", with the value of "extra_files" for a key it has and the
\* value of "files" otherwise, and what it writes is what that value yields;
\* when the loop has run to its end it has handled every key of the two.
C9_MergedOnce ==
    /\ \A i, j \in 1..Len(processed) : processed[i].name = processed[j].name => i = j
    /\ \A i \in 1..Len(processed) :
          LET it == processed[i] IN
            /\ it.name \in KeySet(files) \cup KeySet(extra_files)
            /\ it.content = IF it.name \in KeySet(extra_files)
                              THEN Get(extra_files, it.name)
                              ELSE Get(files, it.name)
            /\ it.outcome = "written" => it.data = fetch(it.content.v)
    /\ pc \in {"respond"} \/ popen_calls # <<>> =>
          {processed[i].name : i \in 1..Len(processed)} = KeySet(files) \cup KeySet(extra_files)

\* the tool started after a key of both mappings was written with a value
\* that differs from the one "files" has
C9_Witness ==
    /\ popen_calls # <<>>
    /\ \E i \in 1..Len(processed) :
          /\ processed[i].name \in KeySet(files) \cap KeySet(extra_files)
          /\ processed[i].outcome = "written"
          /\ Get(files, processed[i].name) # Get(extra_files, processed[i].name)
          /\ processed[i].data = Hi

Untouched ==
    /\ content = NoContent /\ created = <<>> /\ processed = <<>>
    /\ popen_calls = <<>> /\ sent_headers = <<>> /\ ~raised

\* C10 as stated: a request whose path is not "/" or whose method is not POST
\* is answered 404 and nothing else, no body is read, no sandbox made and no
\* tool started for it.
C10_Original ==
    ((path # "/" \/ method # "POST") /\ pc = "done") =>
        status_lines = <<404>> /\ sent_body = <<>> /\ Untouched

\* C10 amended: a POST request whose path is not "/" is answered 404 and
\* nothing else, before the token is checked, and no body is read, no sandbox
\* made and no tool started for it; a request whose method is not POST never
\* reaches do_POST and is answered 501, with as little done for it.
C10_NotFound ==
    /\ (method = "POST" /\ path # "/" /\ pc # "dispatch") =>
          /\ pc \in {"path", "done"}
          /\ pc = "done" => status_lines = <<404>> /\ sent_body = <<>>
          /\ Untouched
    /\ (method # "POST" /\ pc # "dispatch") =>
          pc = "done" /\ status_lines = <<501>> /\ Untouched

\* a POST to another path, without the header a configured token asks for,
\* answered 404
C10_Witness ==
    /\ method = "POST" /\ path # "/" /\ token # None /\ headers.Authorization = None
    /\ pc = "done" /\ status_lines = <<404>>

\* a string content whose fetch or decoding fails
Unfetchable(c) == c.t = "str" /\ c.v \in {"Yg", "http://h/f", "https://h/f"}

\* C11: a request whose materialization hit a content that cannot be fetched
\* or decoded is answered 500 and nothing else, and no tool is started for it.
C11_Claim ==
    (pc = "done" /\ \E i \in 1..Len(processed) :
                       processed[i].outcome = "raised" /\ Unfetchable(processed[i].content)) =>
        status_lines = <<500>> /\ popen_calls = <<>>

\* C12: without a configured token no request is answered 401 or 403, and the
\* gate passes every request on to the content type check, with or without an
\* Authorization header and whatever its value, changing nothing else.
C12_OpenAccess ==
    /\ [](token = None => Statuses \cap {401, 403} = {})
    /\ [][(token = None /\ pc = "auth") =>
            /\ pc' = "content_type"
            /\ UNCHANGED <<request, locals, disk, tool, wire, raised>>]_vars

\* without a token, a request with a wrong Authorization value was converted
C12_Witness ==
    /\ token = None /\ headers.Authorization = "Bearer wrong"
    /\ pc = "done" /\ status_lines = <<200>>

Rank(p) ==
    CASE p = "dispatch" -> 0 [] p = "path" -> 1 [] p = "auth" -> 2 [] p = "content_type" -> 3
      [] p = "read" -> 4 [] p = "parse" -> 5 [] p = "validate" -> 6 [] p = "mkdtemp" -> 7
      [] p = "loop" -> 8 [] p = "respond" -> 9 [] p = "exit_with" -> 10 [] p = "done" -> 11

AuthPassed == token = None \/ headers.Authorization = "Bearer " \o token

\* what each stage has done implies that every gate before it was passed
GatesBefore ==
    /\ content # NoContent =>
          OnlyRoute /\ AuthPassed /\ headers.ContentType = "application/json"
    /\ created # <<>> => content.raw = "json" /\ ~Misshapen(payload)
    /\ processed # <<>> => created # <<>>
    /\ popen_calls # <<>> =>
          /\ Len(processed) = Len(merged)
          /\ \A i \in 1..Len(processed) : processed[i].outcome = "written"

\* the status of a handled request is that of the first gate it fails
FirstFailure ==
    (method = "POST" /\ pc = "done") =>
        IF path # "/" THEN status_lines = <<404>>
        ELSE IF ~AuthPassed
          THEN status_lines = << IF headers.Authorization = None THEN 401 ELSE 403 >>
        ELSE IF headers.ContentType # "application/json" THEN status_lines = <<400>>
        ELSE IF content.raw = "malformed" THEN status_lines = <<400>>
        ELSE IF content.raw = "bad_utf8" THEN status_lines = <<500>>
        ELSE IF content.raw = "json" /\ content.value.t = "obj" /\ Misshapen(content.value)
          THEN status_lines = <<400>> /\ created = <<>>
        ELSE TRUE

\* C18: the handler goes through its gates in one order (path, auth, content
\* type, body, validation, sandbox and materialization, conversion) and never
\* back; the status sent is that of the first gate the request fails; no stage
\* acts unless every gate before it was passed; and once a status is sent the
\* only thing left is the removal of the sandbox.
C18_GateOrder ==
    /\ [](GatesBefore /\ FirstFailure)
    /\ [][/\ Rank(pc') >= Rank(pc)
          /\ status_lines # <<>> =>
                /\ pc = "exit_with" /\ pc' = "done"
                /\ UNCHANGED <<request, locals, created, tool, wire>>]_vars

\* a request with the right token and a wrong content type, answered 400
\* with its body unread
C18_Witness ==
    /\ OnlyRoute /\ token # None /\ AuthPassed /\ headers.ContentType = "text/plain"
    /\ pc = "done" /\ status_lines = <<400>> /\ content = NoContent

\* C19: the tool is started at most once, and only when every item of the
\* merged mapping has passed the path and null checks and its file is in the
\* sandbox with its bytes; nothing is sent to the client before the tool has
\* ended and its output is captured, and then exactly one response.
C19_Sequential ==
    /\ Len(popen_calls) <= 1
    /\ popen_calls # <<>> =>
          /\ Len(processed) = Len(merged)
          /\ \A i \in 1..Len(merged) :
                /\ processed[i].name = merged[i].name
                /\ processed[i].outcome = "written"
                /\ is_relative_to(processed[i].file_path, files_path)
                /\ processed[i].content.t = "str"
          /\ pc = "respond" =>
                /\ status_lines = <<>> /\ sent_headers = <<>> /\ sent_body = <<>>
                /\ \A i \in 1..Len(processed) : processed[i].file_path \in DOMAIN fs
                /\ \A q \in DOMAIN fs :
                      \E i \in 1..Len(processed) :
                          /\ processed[i].file_path = q
                          /\ \A j \in (i + 1)..Len(processed) : processed[j].file_path # q
                          /\ fs[q] = processed[i].data
          /\ pc \in {"exit_with", "done"} => Len(status_lines) = 1
    /\ (pc = "loop" /\ Len(processed) < Len(merged)) => popen_calls = <<>>

\* the tool has ended after three items were written, nothing sent yet
C19_Witness ==
    /\ pc = "respond" /\ Len(processed) = 3 /\ popen_calls # <<>> /\ status_lines = <<>>

\* a content that can be resolved: base64, a data URI, an http(s) URL
Resolvable(c) == c.t = "str" /\ c.v \in {"IyBUaXRsZQ==", "data:,hi", "http://h/f", "https://h/f"}

\* C20: a validated request whose names all resolve inside the files
\* directory and whose contents are all resolvable has every file written
\* with its bytes at its path under the sandbox, and goes on to the tool.
C20_Claim ==
    (/\ created # <<>>
     /\ \A i \in 1..Len(merged) : ~Outside(merged[i].name) /\ Resolvable(merged[i].content)) =>
        /\ \A i \in 1..Len(processed) :
              /\ processed[i].outcome = "written"
              /\ processed[i].file_path = files_path \o PathParts(processed[i].name)
        /\ pc \in {"exit_with", "done"} => Len(processed) = Len(merged) /\ ~raised

\* ------------------------------------------------------- the server's claims
\* the connections accepted after shutdown() had set the flag
Late == {r \in Requests : reqs[r].late}

\* this step accepts a connection
Accepts == \E r \in Requests : reqs[r].st = "queued" /\ reqs'[r].st = "gates"

\* C13 as stated: no connection is accepted once shutdown has been requested.
C13_Original == Late = {}

\* C13: with the shutdown flag set, the serving loop goes to accept a
\* connection only if it had passed the check after select() before the flag
\* was set; so at most one connection is accepted after the request, and none
\* once serve_forever() has left its loop.
C13_StopsAccepting ==
    /\ [][(shutdown_request /\ srv_pc # "accept") => srv_pc' # "accept"]_vars
    /\ [](Cardinality(Late) <= 1)
    /\ [][(is_shut_down \/ srv_pc \in {"finally", "close", "ended"}) => ~Accepts]_vars

C13_Witness == Late # {} /\ proc = "exited"

\* C14: when signal_handler has ended the process, every request accepted
\* before shutdown was requested has run to its end.
C14_Claim ==
    proc = "exited" => \A r \in Requests : reqs[r].late \/ reqs[r].st # "killed"

\* C15: a received signal leads to the end of the process, the process ends
\* through signal_handler only with the server thread ended, and signal_handler
\* never waits forever.
C15_Claim ==
    /\ (delivered # {}) ~> (proc # "running")
    /\ [](proc = "exited" => srv_pc = "ended")
    /\ (sig_pc \in {"wait", "join"}) ~> (sig_pc = "exit" \/ proc # "running")

\* C16: whatever request A does, request B, once connected, is handled to its
\* end, and once its files are written it is answered with the tool's result.
C16_Independent ==
    /\ (reqs["B"].st # "none") ~> (reqs["B"].st = "done")
    /\ (reqs["B"].st = "popen") ~> (reqs["B"].st = "done" /\ reqs["B"].status \in {200, 500})

C16_Witness ==
    /\ reqs["A"].st \in {"gates", "loop", "popen"}
    /\ reqs["B"].st = "done" /\ reqs["B"].status = 200
    /\ backlog = <<>>

\* the directories and files at or below a temporary directory
Tree(d, f, n) == {p \in d \cup DOMAIN f : is_relative_to(p, sandbox(n))}

\* C17: requests inside their with block hold different directories; a request
\* writes, and runs the tool, only below its own; a step that is not the
\* request's own leaves its directory and the files in it as they are; and
\* the step that finishes a request leaves nothing of its directory.
C17_Isolation ==
    /\ [](\A r, q \in Requests :
            (r # q /\ reqs[r].st \in InWith /\ reqs[q].st \in InWith) => reqs[r].dir # reqs[q].dir)
    /\ [](\A r \in Requests :
            /\ \A p \in reqs[r].wrote : is_relative_to(p, files_dir(reqs[r].dir))
            /\ reqs[r].cwd \in {<<>>, files_dir(reqs[r].dir)}
            /\ reqs[r].st \in InWith => files_dir(reqs[r].dir) \in dirs)
    /\ [][\A r \in Requests :
            (reqs[r].st \in InWith /\ reqs'[r].st = "done") =>
              Tree(dirs', fs', reqs[r].dir) = {}]_vars
    /\ [][\A r \in Requests :
            (reqs[r].st \in InWith /\ reqs'[r] = reqs[r]) =>
              /\ Tree(dirs', fs', reqs[r].dir) = Tree(dirs, fs, reqs[r].dir)
              /\ \A p \in DOMAIN fs : is_relative_to(p, sandbox(reqs[r].dir)) => fs'[p] = fs[p]]_vars

C17_Witness ==
    /\ reqs["A"].st = "popen" /\ reqs["B"].st = "popen"
    /\ reqs["A"].wrote # {} /\ reqs["B"].wrote # {}

====
